---- MODULE Spec2Model ----
(***************************************************************************)
(* resourceLib.h: resTable<T,ID>, a hash table with linear-hashing growth  *)
(* whose chains are intrusive singly linked lists, together with the       *)
(* identifier classes intId, chronIntId and stringId.                      *)
(*                                                                         *)
(* A record of type T is modelled as [id |-> ..., tag |-> ...]: `id` is    *)
(* the ID part the table hashes and compares, `tag` tells two objects with *)
(* equal identifiers apart (the address of the object).  A pointer to T is *)
(* a set: {} is the null pointer, {r} points at r.                         *)
(***************************************************************************)
EXTENDS Integers, Sequences, FiniteSets, TLC

(***************************************************************************)
(* Bounds of the model.                                                    *)
(***************************************************************************)
\* integer identifiers used by the callers are 0..MaxId
MaxId == 4
\* MIN_INDEX_WIDTH of the intId instantiation the general specification uses
MinWidth == 1
\* MAX_ID_WIDTH of the intId instantiation the general specification uses
MaxWidth == 4
\* the bits of the type unsigned of the chronological identifiers: allocId and
\* the identifiers of a chronIntIdResTable wrap at 2^ChronW
ChronW == 2
\* the inputs handed to the integer mixer have their 1 bits among ProbeBits
\* bit positions
ProbeBits == 4
\* the backing strings handed to stringId::hash have up to MaxStrLen bytes
\* before their terminating 0
MaxStrLen == 5
\* the widths MIN_INDEX_WIDTH and MAX_ID_WIDTH handed to the integer mixer
\* are 0..MaxMixWidth
MaxMixWidth == 32

(***************************************************************************)
(* Platform constants (limits.h and the sizes of the canonical LP64        *)
(* platform).                                                              *)
(***************************************************************************)
CHAR_BIT == 8
SizeofUnsigned == 4
SizeofResTableIndex == 8

(***************************************************************************)
(* Bit arithmetic on naturals.                                             *)
(***************************************************************************)
RECURSIVE Pow2(_)
Pow2(n) == IF n = 0 THEN 1 ELSE 2 * Pow2(n - 1)

\* x >> n
Shr(x, n) == x \div Pow2(n)

RECURSIVE BitAnd(_, _)
BitAnd(x, y) ==
    IF x = 0 \/ y = 0 THEN 0
    ELSE (IF x % 2 = 1 /\ y % 2 = 1 THEN 1 ELSE 0) + 2 * BitAnd(x \div 2, y \div 2)

RECURSIVE BitXor(_, _)
BitXor(x, y) ==
    IF x = 0 THEN y
    ELSE IF y = 0 THEN x
    ELSE (IF x % 2 = y % 2 THEN 0 ELSE 1) + 2 * BitXor(x \div 2, y \div 2)

\* smallest n with x <= 2^n
RECURSIVE Log2Ceil(_)
Log2Ceil(x) == IF x <= 1 THEN 0 ELSE 1 + Log2Ceil((x + 1) \div 2)


(***************************************************************************)
(* State.  The five fields of one resTable<T,ID>, the ID class it is       *)
(* instantiated with, and the last call made on it with its result.        *)
(***************************************************************************)
VARIABLES
    pTable,           \* array of chain heads, indexed from 0; a chain is a sequence, head first
    nextSplitIndex,
    hashIxMask,
    hashIxSplitMask,
    nInUse,
    ID,               \* the identifier class: [kind, MIN, MAX]
    op,               \* last member function called: "new", "add", "remove", "lookup"
    arg,              \* its argument; tag = NoTag when the argument is an ID only
    ret,              \* its result and what it did, see noRet
    allocFailed,      \* some operator new (std::nothrow) of splitBucket has returned null
    allocId,          \* chronIntIdResTable::allocId
    prevId,           \* the identifier the last chronIntIdResTable::add assigned ({} before the first)
    probe             \* the arguments and the result of the last call of a free function

vars == <<pTable, nextSplitIndex, hashIxMask, hashIxSplitMask, nInUse, ID, op, arg, ret,
          allocFailed, allocId, prevId, probe>>

\* the result of a call that returns nothing and does nothing:
\*   status: the int returned by add;  p: the pointer returned by remove / lookup;
\*   splits: calls of splitBucket made;
\*   alloc: "none" when operator new was not called, else "ok" or "null";
\*   visited: the records a traversal was handed, in order;
\*   attempts: iterations of the loop of chronIntIdResTable::add;
\*   hang: the call does not return
noRet ==
    [status |-> 0, p |-> {}, splits |-> 0, alloc |-> "none", visited |-> << >>,
     attempts |-> 0, hang |-> FALSE]

NoTag == 0 - 1

\* the table object
this ==
    [pTable |-> pTable, nextSplitIndex |-> nextSplitIndex, hashIxMask |-> hashIxMask,
     hashIxSplitMask |-> hashIxSplitMask, nInUse |-> nInUse]

(***************************************************************************)
(* Identifier classes.                                                     *)
(***************************************************************************)
\* intId <T, MIN_INDEX_WIDTH, MAX_ID_WIDTH>
intId(MIN_INDEX_WIDTH, MAX_ID_WIDTH) ==
    [kind |-> "intId", MIN |-> MIN_INDEX_WIDTH, MAX |-> MAX_ID_WIDTH]

stringIdMinIndexWidth == CHAR_BIT

stringIdMaxIndexWidth == SizeofUnsigned

\* class stringId; its backing string pStr is a sequence of bytes ending with
\* the terminating 0, the null pointer is the empty sequence
stringId ==
    [kind |-> "stringId", MIN |-> stringIdMinIndexWidth, MAX |-> stringIdMaxIndexWidth]

minIndexBitWidth(T) ==
    IF T.kind = "stringId" THEN stringIdMinIndexWidth ELSE T.MIN

maxIndexBitWidth(T) ==
    IF T.kind = "stringId" THEN stringIdMaxIndexWidth ELSE SizeofResTableIndex * CHAR_BIT

\* integerHashLoop, but the shifted value is added (+= for ^=)
RECURSIVE integerHashLoop_plusFold(_, _, _)
integerHashLoop_plusFold(MIN_INDEX_WIDTH, width, hashid) ==
    LET w == width \div 2
        h == hashid + Shr(hashid, w)
    IN  IF w > MIN_INDEX_WIDTH
        THEN integerHashLoop_plusFold(MIN_INDEX_WIDTH, w, h)
        ELSE h

\* the do { width >>= 1; hashid ^= hashid >> width; } while ( width > MIN_INDEX_WIDTH ) loop
RECURSIVE integerHashLoop(_, _, _)
integerHashLoop(MIN_INDEX_WIDTH, width, hashid) ==
    LET w == width \div 2
        h == BitXor(hashid, Shr(hashid, w))
    IN  IF w > MIN_INDEX_WIDTH THEN integerHashLoop(MIN_INDEX_WIDTH, w, h) ELSE h

\* integerHash, but the loop is a while loop: no fold when MAX_ID_WIDTH <= MIN_INDEX_WIDTH
integerHash_whileLoop(MIN_INDEX_WIDTH, MAX_ID_WIDTH, id) ==
    IF MAX_ID_WIDTH > MIN_INDEX_WIDTH
    THEN integerHashLoop(MIN_INDEX_WIDTH, MAX_ID_WIDTH, id)
    ELSE id

\* integerHash: the value returned is not masked
integerHash(MIN_INDEX_WIDTH, MAX_ID_WIDTH, id) ==
    integerHashLoop(MIN_INDEX_WIDTH, MAX_ID_WIDTH, id)

(* The same mixer on values of the full width of resTableIndex.  A value is  *)
(* the set of the positions of its 1 bits (bit 0 is the least significant). *)
\* a ^ b
XorBits(a, b) == (a \ b) \cup (b \ a)

\* a >> n
ShrBits(a, n) == {k - n : k \in {j \in a : j >= n}}

\* a & ( ( 1 << w ) - 1 )
MaskBits(a, w) == {k \in a : k < w}

\* a << n
ShlBits(a, n) == {k + n : k \in a}

\* the positions of the 1 bits of the number n < 2^30
BitsOf(n) == {k \in 0..29 : (n \div Pow2(k)) % 2 = 1}

\* the number whose 1 bits are at the positions a
RECURSIVE ValueOf(_)
ValueOf(a) ==
    IF a = {} THEN 0
    ELSE LET k == CHOOSE j \in a : TRUE IN Pow2(k) + ValueOf(a \ {k})

\* integerHashLoopBits, but the loop ends as soon as width <= 2 * MIN_INDEX_WIDTH
RECURSIVE integerHashLoopBits_stopEarly(_, _, _)
integerHashLoopBits_stopEarly(MIN_INDEX_WIDTH, width, hashid) ==
    LET w == width \div 2
        h == XorBits(hashid, ShrBits(hashid, w))
    IN  IF w > 2 * MIN_INDEX_WIDTH
        THEN integerHashLoopBits_stopEarly(MIN_INDEX_WIDTH, w, h)
        ELSE h

\* the do { width >>= 1; hashid ^= hashid >> width; } while ( width > MIN_INDEX_WIDTH ) loop
RECURSIVE integerHashLoopBits(_, _, _)
integerHashLoopBits(MIN_INDEX_WIDTH, width, hashid) ==
    LET w == width \div 2
        h == XorBits(hashid, ShrBits(hashid, w))
    IN  IF w > MIN_INDEX_WIDTH THEN integerHashLoopBits(MIN_INDEX_WIDTH, w, h) ELSE h

integerHashBits(MIN_INDEX_WIDTH, MAX_ID_WIDTH, id) ==
    integerHashLoopBits(MIN_INDEX_WIDTH, MAX_ID_WIDTH, id)

fastHashPermutedIndexSpace ==
    << 39,159,180,252, 71,  6, 13,164,232, 35,226,155, 98,120,154, 69,
      157, 24,137, 29,147, 78,121, 85,112,  8,248,130, 55,117,190,160,
      176,131,228, 64,211,106, 38, 27,140, 30, 88,210,227,104, 84, 77,
       75,107,169,138,195,184, 70, 90, 61,166,  7,244,165,108,219, 51,
        9,139,209, 40, 31,202, 58,179,116, 33,207,146, 76, 60,242,124,
      254,197, 80,167,153,145,129,233,132, 48,246, 86,156,177, 36,187,
       45,  1, 96, 18, 19, 62,185,234, 99, 16,218, 95,128,224,123,253,
       42,109,  4,247, 72,  5,151,136,  0,152,148,127,204,133, 17, 14,
      182,217, 54,199,119,174, 82, 57,215, 41,114,208,206,110,239, 23,
      189, 15,  3, 22,188, 79,113,172, 28,  2,222, 21,251,225,237,105,
      102, 32, 56,181,126, 83,230, 53,158, 52, 59,213,118,100, 67,142,
      220,170,144,115,205, 26,125,168,249, 66,175, 97,255, 92,229, 91,
      214,236,178,243, 46, 44,201,250,135,186,150,221,163,216,162, 43,
       11,101, 34, 37,194, 25, 50, 12, 87,198,173,240,193,171,143,231,
      111,141,191,103, 74,245,223, 20,161,235,122, 63, 89,149, 73,238,
      134, 68, 93,183,241, 81,196, 49,192, 65,212, 94,203, 10,200, 47 >>

\* stringIdHashLoop, but every byte goes to accumulator h0
RECURSIVE stringIdHashLoop_oneLane(_, _, _)
stringIdHashLoop_oneLane(pUStr, i, h) ==
    LET c == pUStr[i]
    IN  IF c = 0 THEN h
        ELSE stringIdHashLoop_oneLane(pUStr, i + 1,
                 [h EXCEPT ![1] = fastHashPermutedIndexSpace[BitXor(h[1], c) + 1]])

\* the while ( true ) loop of stringId::hash: i is the position of pUStr
\* (from 1), h the accumulators <<h0, h1, h2, h3>>
RECURSIVE stringIdHashLoop(_, _, _)
stringIdHashLoop(pUStr, i, h) ==
    LET c == pUStr[i]
        lane == ((i - 1) % 4) + 1
    IN  IF c = 0 THEN h
        ELSE stringIdHashLoop(pUStr, i + 1,
                 [h EXCEPT ![lane] = fastHashPermutedIndexSpace[BitXor(h[lane], c) + 1]])

\* stringId::hash
stringIdHash(pStr) ==
    IF pStr = << >> THEN 0
    ELSE LET h == stringIdHashLoop(pStr, 1, <<0, 0, 0, 0>>)
             h0 == h[4] * Pow2(24) + h[3] * Pow2(16) + h[2] * Pow2(8) + h[1]
         IN  integerHash(stringIdMinIndexWidth, stringIdMaxIndexWidth, h0)

\* stringId::hash on values of the full width of unsigned
stringIdHashBits(pStr) ==
    IF pStr = << >> THEN {}
    ELSE LET h == stringIdHashLoop(pStr, 1, <<0, 0, 0, 0>>)
             h0 == ShlBits(BitsOf(h[4]), 24) \cup ShlBits(BitsOf(h[3]), 16)
                       \cup ShlBits(BitsOf(h[2]), 8) \cup BitsOf(h[1])
         IN  integerHashBits(stringIdMinIndexWidth, stringIdMaxIndexWidth, h0)

\* intId::operator ==
intIdEq(a, b) == a = b

\* strcmp ( a, b ) from position i on: the difference of the first pair of
\* bytes that differ, 0 when the strings agree up to their first 0 byte
RECURSIVE strcmp(_, _, _)
strcmp(a, b, i) ==
    IF a[i] # b[i] THEN a[i] - b[i]
    ELSE IF a[i] = 0 THEN 0
    ELSE strcmp(a, b, i + 1)

\* stringIdEq, but two null backing pointers compare equal
stringIdEq_nullEqual(a, b) ==
    IF a # << >> /\ b # << >> THEN strcmp(a, b, 1) = 0 ELSE a = b

\* stringId::operator ==
stringIdEq(a, b) ==
    IF a # << >> /\ b # << >> THEN strcmp(a, b, 1) = 0 ELSE FALSE

\* ID::hash () of the table's identifier class
idHash(id) ==
    IF ID.kind = "stringId" THEN stringIdHash(id) ELSE integerHash(ID.MIN, ID.MAX, id)

\* ID::operator == of the table's identifier class
idEq(a, b) ==
    IF ID.kind = "stringId" THEN stringIdEq(a, b) ELSE intIdEq(a, b)

(***************************************************************************)
(* tsSLList<T>: the intrusive singly linked list of tsSLList.h.            *)
(***************************************************************************)
\* tsSLList::add: link the item at the head
tsSLList_add(list, item) == <<item>> \o list

\* tsSLList::get: unlink the head
tsSLList_get(list) == Tail(list)

\* tsSLList::remove ( itemBefore ): unlink the successor of the item at position i
tsSLList_remove(list, i) ==
    SubSeq(list, 1, i) \o SubSeq(list, i + 2, Len(list))

(***************************************************************************)
(* resTable<T,ID> member functions, as functions of the table object t.    *)
(***************************************************************************)
\* resTable (), but tableSize () of the new table covers every chain head allocated
resTable_allHeads(T) ==
    LET newTableSize == (Pow2(minIndexBitWidth(T) + 1) - 1) + 1
    IN  [nextSplitIndex |-> 0,
         hashIxMask |-> Pow2(minIndexBitWidth(T) + 1) - 1,
         hashIxSplitMask |-> Pow2(minIndexBitWidth(T) + 2) - 1,
         nInUse |-> 0,
         pTable |-> [i \in 0..(2 * newTableSize - 1) |-> << >>]]

\* resTable::resTable () for identifier class T
resTable(T) ==
    LET newTableSize == (Pow2(minIndexBitWidth(T) + 1) - 1) + 1
    IN  [nextSplitIndex |-> 0,
         hashIxMask |-> Pow2(minIndexBitWidth(T)) - 1,
         hashIxSplitMask |-> Pow2(minIndexBitWidth(T) + 1) - 1,
         nInUse |-> 0,
         pTable |-> [i \in 0..(newTableSize - 1) |-> << >>]]

\* resTable::tableSize
tableSize(t) == (t.hashIxMask + 1) + t.nextSplitIndex

\* hash, but the split mask is applied to every hash value
hash_alwaysSplitMask(t, idIn) ==
    LET h == idHash(idIn)
    IN  BitAnd(h, t.hashIxSplitMask)

\* resTable::hash
hash(t, idIn) ==
    LET h == idHash(idIn)
        h0 == BitAnd(h, t.hashIxMask)
    IN  IF h0 >= t.nextSplitIndex THEN h0 ELSE BitAnd(h, t.hashIxSplitMask)

\* the while ( pItem.valid () ) loop of find, pItem at position i of the list
RECURSIVE findLoop(_, _, _)
findLoop(list, i, idIn) ==
    IF i > Len(list) THEN {}
    ELSE IF idEq(list[i].id, idIn) THEN {list[i]}
    ELSE findLoop(list, i + 1, idIn)

\* find, but only the first item of the list is compared
find_headOnly(list, idIn) ==
    IF list # << >> /\ idEq(Head(list).id, idIn) THEN {Head(list)} ELSE {}

\* resTable::find
find(list, idIn) == findLoop(list, 1, idIn)

\* findDeleteLoop, but the head of the list is unlinked whatever pPrev is
RECURSIVE findDeleteLoop_popHead(_, _, _)
findDeleteLoop_popHead(list, i, idIn) ==
    IF i > Len(list) THEN [list |-> list, p |-> {}, dec |-> 0]
    ELSE IF idEq(list[i].id, idIn)
         THEN [list |-> tsSLList_get(list), p |-> {list[i]}, dec |-> 1]
    ELSE findDeleteLoop_popHead(list, i + 1, idIn)

\* findDeleteLoop, but nInUse is decremented also when nothing is found
RECURSIVE findDeleteLoop_decAlways(_, _, _)
findDeleteLoop_decAlways(list, i, idIn) ==
    IF i > Len(list) THEN [list |-> list, p |-> {}, dec |-> 1]
    ELSE IF idEq(list[i].id, idIn)
         THEN [list |-> IF i > 1 THEN tsSLList_remove(list, i - 1) ELSE tsSLList_get(list),
               p |-> {list[i]}, dec |-> 1]
    ELSE findDeleteLoop_decAlways(list, i + 1, idIn)

\* the while ( pItem.valid () ) loop of findDelete, pItem at position i of the
\* list (pPrev at i - 1, null when i = 1); the result is the list, the item
\* found and the decrement of nInUse
RECURSIVE findDeleteLoop(_, _, _)
findDeleteLoop(list, i, idIn) ==
    IF i > Len(list) THEN [list |-> list, p |-> {}, dec |-> 0]
    ELSE IF idEq(list[i].id, idIn)
         THEN [list |-> IF i > 1 THEN tsSLList_remove(list, i - 1) ELSE tsSLList_get(list),
               p |-> {list[i]}, dec |-> 1]
    ELSE findDeleteLoop(list, i + 1, idIn)

\* resTable::findDelete on the chain of bucket b
findDelete(t, b, idIn) ==
    LET r == findDeleteLoop(t.pTable[b], 1, idIn)
    IN  [t |-> [t EXCEPT !.pTable[b] = r.list, !.nInUse = @ - r.dec], p |-> r.p]

\* lookup, but the bucket is computed from hashIxMask alone
lookup_unsplitHash(t, idIn) == find(t.pTable[BitAnd(idHash(idIn), t.hashIxMask)], idIn)

\* resTable::lookup
lookup(t, idIn) == find(t.pTable[hash(t, idIn)], idIn)

\* remove, but the bucket is computed from hashIxMask alone
remove_unsplitHash(t, idIn) == findDelete(t, BitAnd(idHash(idIn), t.hashIxMask), idIn)

\* remove, but the bucket split last is given up when an item was unlinked
remove_shrink(t, idIn) ==
    LET r == findDelete(t, hash(t, idIn), idIn)
    IN  IF r.p # {} /\ r.t.nextSplitIndex > 0
        THEN [r EXCEPT !.t.nextSplitIndex = @ - 1]
        ELSE r

\* resTable::remove
remove(t, idIn) == findDelete(t, hash(t, idIn), idIn)

\* the while ( pItem ) loop of splitBucket: rehash the items of tmp
RECURSIVE splitBucketRehash(_, _)
splitBucketRehash(t, tmp) ==
    IF tmp = << >> THEN t
    ELSE LET pItem == Head(tmp)
             index == hash(t, pItem.id)
         IN  splitBucketRehash([t EXCEPT !.pTable[index] = tsSLList_add(@, pItem)],
                               tsSLList_get(tmp))

\* splitBucketDouble, but the old chain heads are not copied into the new array
splitBucketDouble_noCopy(t) ==
    LET newTableSize == (t.hashIxSplitMask + 1) * 2
    IN  [t EXCEPT !.pTable = [i \in 0..(newTableSize - 1) |-> << >>],
                  !.hashIxMask = t.hashIxSplitMask,
                  !.hashIxSplitMask = newTableSize - 1,
                  !.nextSplitIndex = 0]

\* splitBucketDouble, but the new array has the size of the old one
splitBucketDouble_oldSize(t) ==
    LET oldTableSize == t.hashIxSplitMask + 1
        newTableSize == oldTableSize
        oldTableOccupiedSize == (t.hashIxMask + 1) + t.nextSplitIndex
    IN  [t EXCEPT !.pTable = [i \in 0..(newTableSize - 1) |->
                                 IF i < oldTableOccupiedSize THEN t.pTable[i] ELSE << >>],
                  !.hashIxMask = t.hashIxSplitMask,
                  !.hashIxSplitMask = newTableSize - 1,
                  !.nextSplitIndex = 0]

\* splitBucketDouble, but hashIxSplitMask is left as it was
splitBucketDouble_sameSplitMask(t) ==
    LET oldTableSize == t.hashIxSplitMask + 1
        newTableSize == oldTableSize * 2
        oldTableOccupiedSize == (t.hashIxMask + 1) + t.nextSplitIndex
    IN  [t EXCEPT !.pTable = [i \in 0..(newTableSize - 1) |->
                                 IF i < oldTableOccupiedSize THEN t.pTable[i] ELSE << >>],
                  !.hashIxMask = t.hashIxSplitMask,
                  !.nextSplitIndex = 0]

\* the doubling of the chain-head array in splitBucket (the allocation succeeded)
splitBucketDouble(t) ==
    LET oldTableSize == t.hashIxSplitMask + 1
        newTableSize == oldTableSize * 2
        oldTableOccupiedSize == (t.hashIxMask + 1) + t.nextSplitIndex
    IN  [t EXCEPT !.pTable = [i \in 0..(newTableSize - 1) |->
                                 IF i < oldTableOccupiedSize THEN t.pTable[i] ELSE << >>],
                  !.hashIxMask = t.hashIxSplitMask,
                  !.hashIxSplitMask = newTableSize - 1,
                  !.nextSplitIndex = 0]

\* splitBucket, but nextSplitIndex is incremented after the items are rehashed
splitBucket_lateIncrement(t, allocOk) ==
    IF t.nextSplitIndex > t.hashIxMask /\ ~allocOk THEN t
    ELSE LET d == IF t.nextSplitIndex > t.hashIxMask THEN splitBucketDouble(t) ELSE t
             tmp == d.pTable[d.nextSplitIndex]
             r == splitBucketRehash([d EXCEPT !.pTable[d.nextSplitIndex] = << >>], tmp)
         IN  [r EXCEPT !.nextSplitIndex = @ + 1]

\* splitBucket, but it does not return when the allocation fails: the split step
\* goes on in the old array
splitBucket_noReturn(t, allocOk) ==
    LET d == IF t.nextSplitIndex > t.hashIxMask /\ allocOk THEN splitBucketDouble(t) ELSE t
        tmp == d.pTable[d.nextSplitIndex]
    IN  splitBucketRehash([d EXCEPT !.pTable[d.nextSplitIndex] = << >>,
                                    !.nextSplitIndex = @ + 1], tmp)

\* splitBucket, but tmp is a copy of the chain of the split bucket, which is
\* not emptied
splitBucket_keepChain(t, allocOk) ==
    IF t.nextSplitIndex > t.hashIxMask /\ ~allocOk THEN t
    ELSE LET d == IF t.nextSplitIndex > t.hashIxMask THEN splitBucketDouble(t) ELSE t
             tmp == d.pTable[d.nextSplitIndex]
         IN  splitBucketRehash([d EXCEPT !.nextSplitIndex = @ + 1], tmp)

\* splitBucket, but nextSplitIndex is incremented before the chain is detached:
\* the chain after the split bucket is the one rehashed
splitBucket_detachNext(t, allocOk) ==
    IF t.nextSplitIndex > t.hashIxMask /\ ~allocOk THEN t
    ELSE LET d == IF t.nextSplitIndex > t.hashIxMask THEN splitBucketDouble(t) ELSE t
             tmp == d.pTable[d.nextSplitIndex + 1]
         IN  splitBucketRehash([d EXCEPT !.pTable[d.nextSplitIndex + 1] = << >>,
                                         !.nextSplitIndex = @ + 1], tmp)

\* resTable::splitBucket; allocOk: operator new ( ..., std::nothrow ) returns
\* non-null when it is called
splitBucket(t, allocOk) ==
    IF t.nextSplitIndex > t.hashIxMask /\ ~allocOk THEN t
    ELSE LET d == IF t.nextSplitIndex > t.hashIxMask THEN splitBucketDouble(t) ELSE t
             tmp == d.pTable[d.nextSplitIndex]
         IN  splitBucketRehash([d EXCEPT !.pTable[d.nextSplitIndex] = << >>,
                                         !.nextSplitIndex = @ + 1], tmp)

\* add, but the chain is chosen before the split step runs
add_staleBucket(t, res, allocOk) ==
    LET split == t.nInUse > tableSize(t)
        b == hash(t, res.id)
        t1 == IF split THEN splitBucket(t, allocOk) ELSE t
        splits == IF split THEN 1 ELSE 0
    IN  IF find(t1.pTable[b], res.id) # {}
        THEN [t |-> t1, status |-> 0 - 1, splits |-> splits]
        ELSE [t |-> [t1 EXCEPT !.pTable[b] = tsSLList_add(@, res), !.nInUse = @ + 1],
              status |-> 0, splits |-> splits]

\* add, but the duplicate check comes first and a duplicate returns before the
\* split decision
add_checkFirst(t, res, allocOk) ==
    LET split == t.nInUse > tableSize(t)
        t1 == IF split THEN splitBucket(t, allocOk) ELSE t
        b == hash(t1, res.id)
        splits == IF split THEN 1 ELSE 0
    IN  IF find(t.pTable[hash(t, res.id)], res.id) # {}
        THEN [t |-> t, status |-> 0 - 1, splits |-> 0]
        ELSE [t |-> [t1 EXCEPT !.pTable[b] = tsSLList_add(@, res), !.nInUse = @ + 1],
              status |-> 0, splits |-> splits]

\* add, but the split step is also run when nInUse equals tableSize ()
add_splitAtEqual(t, res, allocOk) ==
    LET split == t.nInUse >= tableSize(t)
        t1 == IF split THEN splitBucket(t, allocOk) ELSE t
        b == hash(t1, res.id)
        splits == IF split THEN 1 ELSE 0
    IN  IF find(t1.pTable[b], res.id) # {}
        THEN [t |-> t1, status |-> 0 - 1, splits |-> splits]
        ELSE [t |-> [t1 EXCEPT !.pTable[b] = tsSLList_add(@, res), !.nInUse = @ + 1],
              status |-> 0, splits |-> splits]

\* add, but the split decision is taken after the item is linked
add_splitAfterInsert(t, res, allocOk) ==
    LET b == hash(t, res.id)
        t1 == [t EXCEPT !.pTable[b] = tsSLList_add(@, res), !.nInUse = @ + 1]
        split == t1.nInUse > tableSize(t1)
    IN  IF find(t.pTable[b], res.id) # {}
        THEN [t |-> t, status |-> 0 - 1, splits |-> 0]
        ELSE [t |-> IF split THEN splitBucket(t1, allocOk) ELSE t1,
              status |-> 0, splits |-> IF split THEN 1 ELSE 0]

\* the loop of add_splitLoop: t after the split steps and their number n
RECURSIVE add_splitLoopSteps(_, _, _)
add_splitLoopSteps(t, allocOk, n) ==
    IF t.nInUse > tableSize(t) /\ ~(t.nextSplitIndex > t.hashIxMask /\ ~allocOk)
    THEN add_splitLoopSteps(splitBucket(t, allocOk), allocOk, n + 1)
    ELSE [t |-> t, n |-> n]

\* add, but split steps are run until nInUse <= tableSize () (while for if)
add_splitLoop(t, res, allocOk) ==
    LET l == add_splitLoopSteps(t, allocOk, 0)
        t1 == l.t
        b == hash(t1, res.id)
    IN  IF find(t1.pTable[b], res.id) # {}
        THEN [t |-> t1, status |-> 0 - 1, splits |-> l.n]
        ELSE [t |-> [t1 EXCEPT !.pTable[b] = tsSLList_add(@, res), !.nInUse = @ + 1],
              status |-> 0, splits |-> l.n]

\* add, but a bucket is split only when nInUse exceeds the bucket count by two
add_splitAboveNext(t, res, allocOk) ==
    LET split == t.nInUse > tableSize(t) + 1
        t1 == IF split THEN splitBucket(t, allocOk) ELSE t
        b == hash(t1, res.id)
        splits == IF split THEN 1 ELSE 0
    IN  IF find(t1.pTable[b], res.id) # {}
        THEN [t |-> t1, status |-> 0 - 1, splits |-> splits]
        ELSE [t |-> [t1 EXCEPT !.pTable[b] = tsSLList_add(@, res), !.nInUse = @ + 1],
              status |-> 0, splits |-> splits]

\* add, but the item is linked at the tail of its chain
add_linkAtTail(t, res, allocOk) ==
    LET split == t.nInUse > tableSize(t)
        t1 == IF split THEN splitBucket(t, allocOk) ELSE t
        b == hash(t1, res.id)
        splits == IF split THEN 1 ELSE 0
    IN  IF find(t1.pTable[b], res.id) # {}
        THEN [t |-> t1, status |-> 0 - 1, splits |-> splits]
        ELSE [t |-> [t1 EXCEPT !.pTable[b] = Append(@, res), !.nInUse = @ + 1],
              status |-> 0, splits |-> splits]

\* resTable::add: the table after the call, the status returned and the number
\* of calls of splitBucket made
add(t, res, allocOk) ==
    LET split == t.nInUse > tableSize(t)
        t1 == IF split THEN splitBucket(t, allocOk) ELSE t
        b == hash(t1, res.id)
        splits == IF split THEN 1 ELSE 0
    IN  IF find(t1.pTable[b], res.id) # {}
        THEN [t |-> t1, status |-> 0 - 1, splits |-> splits]
        ELSE [t |-> [t1 EXCEPT !.pTable[b] = tsSLList_add(@, res), !.nInUse = @ + 1],
              status |-> 0, splits |-> splits]

\* the add of t calls operator new, and it returns null
addAllocFails(t, allocOk) ==
    t.nInUse > tableSize(t) /\ t.nextSplitIndex > t.hashIxMask /\ ~allocOk

\* what the operator new call of the add of t returns, "none" when add makes no call
addAlloc(t, allocOk) ==
    IF t.nInUse > tableSize(t) /\ t.nextSplitIndex > t.hashIxMask
    THEN (IF allocOk THEN "ok" ELSE "null")
    ELSE "none"

\* the records linked into the chains of t
Linked(t) ==
    UNION {{t.pTable[i][k] : k \in 1..Len(t.pTable[i])} : i \in DOMAIN t.pTable}

(***************************************************************************)
(* Iteration.  A tsSLIter<T> is a pointer to an item; its increment goes   *)
(* to the item its item is linked to.                                      *)
(***************************************************************************)
\* tsSLList::firstIter
tsSLList_firstIter(list) == IF list = << >> THEN {} ELSE {Head(list)}

\* tsSLIter::operator ++ on an iterator p of an item linked into a chain of t
tsSLIter_next(t, p) ==
    IF p = {} THEN {}
    ELSE UNION {{t.pTable[i][k + 1] : k \in {j \in 1..(Len(t.pTable[i]) - 1) :
                                                t.pTable[i][j] \in p}} :
                i \in DOMAIN t.pTable}

\* the callback ( pItem.pointer ()->*pCB ) () of an item: the items of S
\* remove themselves from the table, the others leave it alone
callback(t, pItem, S) ==
    IF pItem \subseteq S THEN remove(t, (CHOOSE r \in pItem : TRUE).id).t ELSE t

\* traverseList, but pNext is taken from pItem after the callback returned
RECURSIVE traverseList_nextAfterCallback(_, _, _, _)
traverseList_nextAfterCallback(t, pItem, S, visited) ==
    IF pItem = {} THEN [t |-> t, visited |-> visited]
    ELSE traverseList_nextAfterCallback(callback(t, pItem, S),
                                        tsSLIter_next(callback(t, pItem, S), pItem),
                                        S, Append(visited, pItem))

\* the while ( pItem.valid () ) loop of traverse
RECURSIVE traverseList(_, _, _, _)
traverseList(t, pItem, S, visited) ==
    IF pItem = {} THEN [t |-> t, visited |-> visited]
    ELSE LET pNext == tsSLIter_next(t, pItem)
         IN  traverseList(callback(t, pItem, S), pNext, S, Append(visited, pItem))

\* the while ( pList < &this->pTable[N] ) loop of traverse, pList at pTable[i]
RECURSIVE traverseLoop(_, _, _, _, _)
traverseLoop(t, i, N, S, visited) ==
    IF i >= N THEN [t |-> t, visited |-> visited]
    ELSE LET l == traverseList(t, tsSLList_firstIter(t.pTable[i]), S, visited)
         IN  traverseLoop(l.t, i + 1, N, S, l.visited)

\* resTable::traverse; visited are the items the callback was called on
traverse(t, S) == traverseLoop(t, 0, tableSize(t), S, << >>)

\* resTable::traverseConst: the callback is const
traverseConst(t) == traverseLoop(t, 0, tableSize(t), {}, << >>)

\* resTableIter, but index starts at 0
resTableIter_indexZero(t) == [iter |-> tsSLList_firstIter(t.pTable[0]), index |-> 0]

\* resTableIter::resTableIter ( tableIn )
resTableIter(t) == [iter |-> tsSLList_firstIter(t.pTable[0]), index |-> 1]

\* the while ( true ) loop of resTableIter::next
RECURSIVE nextLoop(_, _, _)
nextLoop(t, it, N) ==
    IF it.index >= N THEN [it |-> it, p |-> {}]
    ELSE LET first == tsSLList_firstIter(t.pTable[it.index])
         IN  IF first # {}
             THEN [it |-> [iter |-> tsSLIter_next(t, first), index |-> it.index + 1],
                   p |-> first]
             ELSE nextLoop(t, [iter |-> first, index |-> it.index + 1], N)

\* resTableIter::next
next(t, it) ==
    IF it.iter # {}
    THEN [it |-> [it EXCEPT !.iter = tsSLIter_next(t, it.iter)], p |-> it.iter]
    ELSE nextLoop(t, it, tableSize(t))

\* what n successive calls of next return, from the iterator it on
RECURSIVE nextCalls(_, _, _)
nextCalls(t, it, n) ==
    IF n = 0 THEN << >>
    ELSE <<next(t, it).p>> \o nextCalls(t, next(t, it).it, n - 1)

(***************************************************************************)
(* chronIntIdResTable<ITEM>.                                               *)
(***************************************************************************)
\* the largest value of the type unsigned
UINT_MAX == Pow2(ChronW) - 1

\* class chronIntId : public intId <unsigned, 8u, sizeof(unsigned)*CHAR_BIT>
chronIntId == intId(8, ChronW)

\* chronIntIdRes::chronIntIdRes: a new item has the identifier UINT_MAX
chronIntIdRes(tag) == [id |-> UINT_MAX, tag |-> tag]

\* chronAddLoop, but allocId is incremented only before a retry
RECURSIVE chronAddLoop_incrementOnRetry(_, _, _, _, _, _)
chronAddLoop_incrementOnRetry(t, id, item, allocOk, n, seen) ==
    LET it == [item EXCEPT !.id = id]
        a == add(t, it, allocOk)
    IN  IF <<t, id>> \in seen
        THEN [t |-> t, allocId |-> id, item |-> item, attempts |-> n, hang |-> TRUE]
        ELSE IF a.status = 0
        THEN [t |-> a.t, allocId |-> id, item |-> it, attempts |-> n + 1, hang |-> FALSE]
        ELSE chronAddLoop_incrementOnRetry(a.t, (id + 1) % (UINT_MAX + 1), it, allocOk,
                                           n + 1, seen \cup {<<t, id>>})

\* chronAddLoop, but allocId is incremented twice when the attempt failed
RECURSIVE chronAddLoop_skipAfterCollision(_, _, _, _, _, _)
chronAddLoop_skipAfterCollision(t, id, item, allocOk, n, seen) ==
    LET it == [item EXCEPT !.id = id]
        a == add(t, it, allocOk)
    IN  IF <<t, id>> \in seen
        THEN [t |-> t, allocId |-> id, item |-> item, attempts |-> n, hang |-> TRUE]
        ELSE IF a.status = 0
        THEN [t |-> a.t, allocId |-> (id + 1) % (UINT_MAX + 1), item |-> it,
              attempts |-> n + 1, hang |-> FALSE]
        ELSE chronAddLoop_skipAfterCollision(a.t, (id + 2) % (UINT_MAX + 1), it, allocOk,
                                             n + 1, seen \cup {<<t, id>>})

\* the do { item.setId ( allocId++ ); status = add ( item ); } while ( status )
\* loop of chronIntIdResTable::add: id is allocId, n counts the attempts made,
\* seen holds the states (table, allocId) the loop has started an attempt in;
\* when one of them comes back the loop repeats for ever (hang)
RECURSIVE chronAddLoop(_, _, _, _, _, _)
chronAddLoop(t, id, item, allocOk, n, seen) ==
    LET it == [item EXCEPT !.id = id]
        a == add(t, it, allocOk)
    IN  IF <<t, id>> \in seen
        THEN [t |-> t, allocId |-> id, item |-> item, attempts |-> n, hang |-> TRUE]
        ELSE IF a.status = 0
        THEN [t |-> a.t, allocId |-> (id + 1) % (UINT_MAX + 1), item |-> it,
              attempts |-> n + 1, hang |-> FALSE]
        ELSE chronAddLoop(a.t, (id + 1) % (UINT_MAX + 1), it, allocOk,
                          n + 1, seen \cup {<<t, id>>})

\* chronIntIdResTable::add
chronAdd(t, id, item, allocOk) == chronAddLoop(t, id, item, allocOk, 0, {})

\* the calls of splitBucket that the calls of resTable::add in the loop of
\* chronIntIdResTable::add make in all
RECURSIVE chronAddSplits(_, _, _, _, _)
chronAddSplits(t, id, item, allocOk, seen) ==
    LET it == [item EXCEPT !.id = id]
        a == add(t, it, allocOk)
    IN  IF <<t, id>> \in seen THEN 0
        ELSE IF a.status = 0 THEN a.splits
        ELSE a.splits + chronAddSplits(a.t, (id + 1) % (UINT_MAX + 1), it, allocOk,
                                       seen \cup {<<t, id>>})

(***************************************************************************)
(* The callers.                                                            *)
(***************************************************************************)
\* a few backing strings of stringId records
StrIds == {<<97, 0>>, <<98, 0>>, <<97, 98, 0>>, <<98, 97, 99, 0>>}

\* two objects of type T per identifier
Tags == {0, 1}

\* the identifiers the callers use
Ids == IF ID.kind = "stringId" THEN StrIds ELSE 0..MaxId

\* the objects of type T the callers own
Records == {[id |-> i, tag |-> g] : i \in Ids, g \in Tags}

store(t) ==
    /\ pTable' = t.pTable
    /\ nextSplitIndex' = t.nextSplitIndex
    /\ hashIxMask' = t.hashIxMask
    /\ hashIxSplitMask' = t.hashIxSplitMask
    /\ nInUse' = t.nInUse

construct(T) ==
    /\ ID = T
    /\ pTable = resTable(T).pTable
    /\ nextSplitIndex = resTable(T).nextSplitIndex
    /\ hashIxMask = resTable(T).hashIxMask
    /\ hashIxSplitMask = resTable(T).hashIxSplitMask
    /\ nInUse = resTable(T).nInUse
    /\ op = "new"
    /\ arg = [id |-> CHOOSE i \in Ids : TRUE, tag |-> NoTag]
    /\ ret = noRet
    /\ allocFailed = FALSE
    /\ allocId = 1
    /\ prevId = {}

\* table.add ( res )
AddCall(res, allocOk) ==
    /\ store(add(this, res, allocOk).t)
    /\ op' = "add"
    /\ arg' = res
    /\ ret' = [noRet EXCEPT !.status = add(this, res, allocOk).status,
                             !.splits = add(this, res, allocOk).splits,
                             !.alloc = addAlloc(this, allocOk)]
    /\ allocFailed' = (allocFailed \/ addAllocFails(this, allocOk))
    /\ UNCHANGED <<ID, allocId, prevId, probe>>

\* table.remove ( idIn )
RemoveCall(idIn) ==
    /\ store(remove(this, idIn).t)
    /\ op' = "remove"
    /\ arg' = [id |-> idIn, tag |-> NoTag]
    /\ ret' = [noRet EXCEPT !.p = remove(this, idIn).p]
    /\ UNCHANGED <<ID, allocFailed, allocId, prevId, probe>>

\* LookupCall, but the item found is moved to the front of its chain
LookupCall_moveToFront(idIn) ==
    /\ pTable' = [pTable EXCEPT ![hash(this, idIn)] =
                     IF lookup(this, idIn) = {} THEN @
                     ELSE <<CHOOSE r \in lookup(this, idIn) : TRUE>>
                              \o SelectSeq(@, LAMBDA x : x \notin lookup(this, idIn))]
    /\ op' = "lookup"
    /\ arg' = [id |-> idIn, tag |-> NoTag]
    /\ ret' = [noRet EXCEPT !.p = lookup(this, idIn)]
    /\ UNCHANGED <<nextSplitIndex, hashIxMask, hashIxSplitMask, nInUse, ID,
                   allocFailed, allocId, prevId, probe>>

\* table.lookup ( idIn )
LookupCall(idIn) ==
    /\ op' = "lookup"
    /\ arg' = [id |-> idIn, tag |-> NoTag]
    /\ ret' = [noRet EXCEPT !.p = lookup(this, idIn)]
    /\ UNCHANGED <<pTable, nextSplitIndex, hashIxMask, hashIxSplitMask, nInUse, ID,
                   allocFailed, allocId, prevId, probe>>

\* table.traverse ( pCB ), the callbacks of the items of S removing their item
TraverseCall(S) ==
    /\ store(traverse(this, S).t)
    /\ op' = "traverse"
    /\ arg' = [id |-> arg.id, tag |-> NoTag]
    /\ ret' = [noRet EXCEPT !.visited = traverse(this, S).visited]
    /\ UNCHANGED <<ID, allocFailed, allocId, prevId, probe>>

\* table.traverseConst ( pCB )
TraverseConstCall ==
    /\ op' = "traverseConst"
    /\ arg' = [id |-> arg.id, tag |-> NoTag]
    /\ ret' = [noRet EXCEPT !.visited = traverseConst(this).visited]
    /\ UNCHANGED <<pTable, nextSplitIndex, hashIxMask, hashIxSplitMask, nInUse, ID,
                   allocFailed, allocId, prevId, probe>>

\* resTableIter it ( table ); then n calls of it.next (), the table left alone
IterateCall(n) ==
    /\ op' = "iterate"
    /\ arg' = [id |-> arg.id, tag |-> NoTag]
    /\ ret' = [noRet EXCEPT !.visited = nextCalls(this, resTableIter(this), n)]
    /\ UNCHANGED <<pTable, nextSplitIndex, hashIxMask, hashIxSplitMask, nInUse, ID,
                   allocFailed, allocId, prevId, probe>>

\* chronTable.add ( item ); arg is the item as the call leaves it
ChronAddCall(item, allocOk) ==
    /\ store(chronAdd(this, allocId, item, allocOk).t)
    /\ allocId' = chronAdd(this, allocId, item, allocOk).allocId
    /\ op' = "chronAdd"
    /\ arg' = chronAdd(this, allocId, item, allocOk).item
    /\ ret' = [noRet EXCEPT !.attempts = chronAdd(this, allocId, item, allocOk).attempts,
                             !.hang = chronAdd(this, allocId, item, allocOk).hang,
                             !.splits = chronAddSplits(this, allocId, item, allocOk, {}),
                             !.alloc = addAlloc(this, allocOk)]
    /\ allocFailed' = (allocFailed \/ addAllocFails(this, allocOk))
    /\ prevId' = IF chronAdd(this, allocId, item, allocOk).hang THEN prevId
                 ELSE {chronAdd(this, allocId, item, allocOk).item.id}
    /\ UNCHANGED <<ID, probe>>

\* integerHash ( MIN_INDEX_WIDTH, MAX_ID_WIDTH, id ) of the identifier class of
\* the table, called with id = x and with id = x ^ ( 1 << i ); both results
\* are then masked to their low w bits
IntegerHashCall(x, i, w) ==
    /\ op' = "integerHash"
    /\ probe' = [x |-> x, i |-> i, w |-> w,
                 h |-> MaskBits(integerHashBits(ID.MIN, ID.MAX, x), w),
                 hFlipped |-> MaskBits(integerHashBits(ID.MIN, ID.MAX, XorBits(x, {i})), w)]
    /\ UNCHANGED <<pTable, nextSplitIndex, hashIxMask, hashIxSplitMask, nInUse, ID,
                   arg, ret, allocFailed, allocId, prevId>>

\* a.hash () and b.hash () of two stringId objects with the backing strings
\* probe.a and probe.b
StringIdHashCall ==
    /\ op' = "stringIdHash"
    /\ probe' = [probe EXCEPT !.ha = {stringIdHashBits(probe.a)},
                              !.hb = {stringIdHashBits(probe.b)}]
    /\ UNCHANGED <<pTable, nextSplitIndex, hashIxMask, hashIxSplitMask, nInUse, ID,
                   arg, ret, allocFailed, allocId, prevId>>

\* a == b of two stringId objects with the backing strings probe.a and probe.b
StringIdEqCall ==
    /\ op' = "stringIdEq"
    /\ probe' = [probe EXCEPT !.eq = {stringIdEq(probe.a, probe.b)}]
    /\ UNCHANGED <<pTable, nextSplitIndex, hashIxMask, hashIxSplitMask, nInUse, ID,
                   arg, ret, allocFailed, allocId, prevId>>

\* integerHash ( probe.MIN, probe.MAX, probe.v )
MixCall ==
    /\ op' = "integerHash"
    /\ probe' = [probe EXCEPT !.h = {integerHash(probe.MIN, probe.MAX, probe.v)}]
    /\ UNCHANGED <<pTable, nextSplitIndex, hashIxMask, hashIxSplitMask, nInUse, ID,
                   arg, ret, allocFailed, allocId, prevId>>

\* the outcomes of the operator new calls of one add: none is made unless the
\* add splits with nextSplitIndex > hashIxMask
allocOutcomes(t) ==
    IF t.nInUse > tableSize(t) /\ t.nextSplitIndex > t.hashIxMask THEN BOOLEAN ELSE {TRUE}

Add == \E res \in Records : \E allocOk \in allocOutcomes(this) : AddCall(res, allocOk)

Remove == \E idIn \in Ids : RemoveCall(idIn)

Lookup == \E idIn \in Ids : LookupCall(idIn)

\* a table keyed by intId <unsigned, MinWidth, MaxWidth>
Init == construct(intId(MinWidth, MaxWidth)) /\ probe = << >>

Next == Add \/ Remove \/ Lookup

Spec == Init /\ [][Next]_vars

(***************************************************************************)
(* Scenario S2: a table keyed by intId <unsigned, 4, 8>; the identifiers   *)
(* 0, 1, ..., S2Last are added in ascending order.                         *)
(***************************************************************************)
S2Last == 63

InitS2 == construct(intId(4, 8)) /\ probe = << >>

S2Insert ==
    /\ nInUse <= S2Last
    /\ \E allocOk \in allocOutcomes(this) : AddCall([id |-> nInUse, tag |-> 0], allocOk)

NextS2 == S2Insert

SpecS2 == InitS2 /\ [][NextS2]_vars

(***************************************************************************)
(* A table keyed by stringId.                                              *)
(***************************************************************************)
InitStr == construct(stringId) /\ probe = << >>

SpecStr == InitStr /\ [][Next]_vars

(***************************************************************************)
(* A chronIntIdResTable.  A call of add that does not return leaves the    *)
(* caller inside it: no further call is made.                              *)
(***************************************************************************)
InitChron == construct(chronIntId) /\ probe = << >>

ChronAdd ==
    /\ ~ret.hang
    /\ \E allocOk \in allocOutcomes(this) : ChronAddCall(chronIntIdRes(0), allocOk)

ChronRemove ==
    /\ ~ret.hang
    /\ \E idIn \in 0..UINT_MAX : RemoveCall(idIn)

NextChron == ChronAdd \/ ChronRemove

SpecChron == InitChron /\ [][NextChron]_vars

\* a chronIntIdResTable scaled down in its first bucket count as it is in its
\* identifiers: 2^MinWidth buckets at first, in place of the 2^8 of
\* chronIntId, so that a table of fewer than 2^ChronW records splits
InitChronLoad == construct(intId(MinWidth, ChronW)) /\ probe = << >>

SpecChronLoad == InitChronLoad /\ [][NextChron]_vars

(***************************************************************************)
(* The integer mixer of intId <unsigned, 4, 32>.                           *)
(***************************************************************************)
\* the 32 bit inputs probed
ProbeInputs == SUBSET {(k * 11) % 32 : k \in 0..(ProbeBits - 1)}

\* the caller holds an input x, a bit position i and a width w
InitHash ==
    /\ construct(intId(4, 32))
    /\ probe \in [x : ProbeInputs, i : 0..31, w : 4..32, h : {{}}, hFlipped : {{}}]

IntegerHash == op = "new" /\ IntegerHashCall(probe.x, probe.i, probe.w)

NextHash == IntegerHash

SpecHash == InitHash /\ [][NextHash]_vars

(***************************************************************************)
(* Two stringId objects.  The memory a backing pointer points at is a      *)
(* sequence of bytes that ends with a 0 and may hold further 0 bytes       *)
(* before it; the null pointer is the empty sequence.                      *)
(***************************************************************************)
\* the bytes the backing strings are made of
StrBytes == {0, 97, 228}

\* the backing pointers of the first object: null, or up to MaxStrLen bytes and a 0
StrProbesA ==
    {<< >>} \cup {s \o <<0>> : s \in UNION {[1..n -> StrBytes] : n \in 0..MaxStrLen}}

\* the backing pointers of the second object: null, or up to two bytes and a 0
StrProbesB ==
    {<< >>} \cup {s \o <<0>> : s \in UNION {[1..n -> StrBytes] : n \in 0..2}}

InitStrId ==
    /\ construct(stringId)
    /\ probe \in [a : StrProbesA, b : StrProbesB, ha : {{}}, hb : {{}}, eq : {{}}]

StringIdHash == op = "new" /\ StringIdHashCall

StringIdEq == op \in {"new", "stringIdHash"} /\ StringIdEqCall

NextStrId == StringIdHash \/ StringIdEq

SpecStrId == InitStrId /\ [][NextStrId]_vars

(***************************************************************************)
(* The integer mixer called with any pair of widths.                       *)
(***************************************************************************)
\* the caller holds the widths 0..MaxMixWidth and a value below 2^23
InitMix ==
    /\ construct(intId(MinWidth, MaxWidth))
    /\ probe \in [MIN : 0..MaxMixWidth, MAX : 0..MaxMixWidth,
                   v : {ValueOf(x) : x \in ProbeInputs}, h : {{}}]

Mix == op = "new" /\ MixCall

NextMix == Mix

SpecMix == InitMix /\ [][NextMix]_vars

(***************************************************************************)
(* A table that is also traversed and iterated over.                       *)
(***************************************************************************)
Traverse == \E S \in SUBSET Linked(this) : TraverseCall(S)

TraverseConst == TraverseConstCall

\* two calls of next more than there are entries
Iterate == IterateCall(nInUse + 2)

\* the callers add one object per identifier
WalkAdd ==
    \E i \in Ids : \E allocOk \in allocOutcomes(this) : AddCall([id |-> i, tag |-> 0], allocOk)

NextWalk == WalkAdd \/ Remove \/ Traverse \/ TraverseConst \/ Iterate

SpecWalk == Init /\ [][NextWalk]_vars

(***************************************************************************)
(* A table whose callers number their objects in the order in which they   *)
(* hand them to add: the tag of an object is larger than that of every     *)
(* object linked at the time.                                              *)
(***************************************************************************)
\* the largest tag the callers use
MaxStamp == 4

\* the tag of the next object handed to add
NextStamp(t) ==
    IF Linked(t) = {} THEN 0
    ELSE 1 + (CHOOSE g \in {r.tag : r \in Linked(t)} : \A r \in Linked(t) : r.tag <= g)

OrderAdd ==
    /\ NextStamp(this) <= MaxStamp
    /\ \E i \in Ids : \E allocOk \in allocOutcomes(this) :
           AddCall([id |-> i, tag |-> NextStamp(this)], allocOk)

NextOrder == OrderAdd \/ Remove

SpecOrder == Init /\ [][NextOrder]_vars

(***************************************************************************)
(* Properties.                                                             *)
(***************************************************************************)
\* the bucket count B
B == tableSize(this)

\* the chain positions <<bucket, position>> of t
Positions(t) ==
    UNION {{<<i, k>> : k \in 1..Len(t.pTable[i])} : i \in DOMAIN t.pTable}

RECURSIVE SumLen(_, _)
SumLen(t, n) == IF n = 0 THEN 0 ELSE Len(t.pTable[n - 1]) + SumLen(t, n - 1)

\* C1: after add(r) returned success, lookup(r.id) returns exactly r, and it
\* keeps returning r across every later call (adds, removes of other
\* identifiers, lookups, split steps, doublings) that is not remove(r.id)
C1_AddThenLookup ==
    /\ [](op = "add" /\ ret.status = 0 => lookup(this, arg.id) = {arg})
    /\ [][\A r \in Records :
            (lookup(this, r.id) = {r} /\ ~(op' = "remove" /\ idEq(arg'.id, r.id)))
                => lookup(this', r.id) = {r}]_vars

\* a record added with success has stayed the result of lookup while the table
\* doubled and other identifiers were added
C1_Witness ==
    /\ hashIxMask > Pow2(MinWidth) - 1
    /\ nextSplitIndex > 0
    /\ \E r \in Linked(this) : lookup(this, r.id) = {r} /\ (op = "add" => arg # r)


\* C2: when remove(id) has returned a record, lookup(id) returns null and an
\* add of any record with that identifier returns 0, whatever the state of
\* the split round
C2_RemoveThenLookupAdd ==
    (op = "remove" /\ ret.p # {}) =>
        /\ lookup(this, arg.id) = {}
        /\ \A g \in Tags : \A allocOk \in BOOLEAN :
               add(this, [id |-> arg.id, tag |-> g], allocOk).status = 0

\* a record was removed in the middle of a split round
C2_Witness ==
    /\ op = "remove" /\ ret.p # {}
    /\ 0 < nextSplitIndex /\ nextSplitIndex <= hashIxMask
    /\ nInUse > 0

\* C3: no two chain positions of the table hold records whose identifiers
\* compare equal
C3_Uniqueness ==
    \A x \in Positions(this) : \A y \in Positions(this) :
        x # y => ~idEq(pTable[x[1]][x[2]].id, pTable[y[1]][y[2]].id)

\* a duplicate was rejected while another bucket holds two records
C3_Witness ==
    /\ op = "add" /\ ret.status = 0 - 1
    /\ \E i \in DOMAIN pTable : Len(pTable[i]) >= 2
    /\ nextSplitIndex > 0

\* C4: add(r2) while another record r1 with an equal identifier is linked
\* returns -1, does not link r2, leaves nInUse unchanged, and lookup of the
\* identifier still returns r1
C4_DuplicateAdd ==
    [][\A r1 \in Records :
         (op' = "add" /\ r1 # arg' /\ r1 \in Linked(this) /\ idEq(r1.id, arg'.id))
            => /\ ret'.status = 0 - 1
               /\ arg' \notin Linked(this')
               /\ nInUse' = nInUse
               /\ lookup(this', arg'.id) = {r1}]_vars

\* a duplicate add was rejected and the first record is still the one found
C4_Witness ==
    /\ op = "add" /\ ret.status = 0 - 1
    /\ arg \notin Linked(this)
    /\ lookup(this, arg.id) # {}

\* C5 as claimed: an add that returns Duplicate leaves the masks,
\* nextSplitIndex and every chain unchanged
C5_DuplicateAddNoSplit ==
    [][(op' = "add" /\ ret'.status = 0 - 1)
          => UNCHANGED <<hashIxMask, hashIxSplitMask, nextSplitIndex, pTable>>]_vars

\* C5 amended: the split decision precedes the duplicate check.  An add that
\* returns Duplicate leaves nInUse and the set of linked records unchanged;
\* it leaves the masks, nextSplitIndex and the chains unchanged when
\* nInUse <= B at the call, and when nInUse > B it has run one split step: B
\* has grown by one unless the doubling allocation failed
C5_DuplicateAddAfterSplit ==
    [][(op' = "add" /\ ret'.status = 0 - 1)
          => /\ nInUse' = nInUse
             /\ Linked(this') = Linked(this)
             /\ IF nInUse > B
                THEN /\ ret'.splits = 1
                     /\ \/ tableSize(this') = B + 1
                        \/ /\ nextSplitIndex > hashIxMask
                           /\ allocFailed'
                           /\ UNCHANGED <<hashIxMask, hashIxSplitMask, nextSplitIndex, pTable>>
                ELSE /\ ret'.splits = 0
                     /\ UNCHANGED <<hashIxMask, hashIxSplitMask, nextSplitIndex, pTable>>]_vars

\* an add returned Duplicate after it ran a split step
C5_Witness ==
    /\ op = "add" /\ ret.status = 0 - 1 /\ ret.splits = 1
    /\ nextSplitIndex > 0

\* C6: nInUse is the sum of the lengths of the chains of buckets 0..B-1
C6_CountConsistency == nInUse = SumLen(this, B)

\* records were added and removed and the table has split
C6_Witness ==
    /\ op = "remove" /\ ret.p # {}
    /\ nInUse >= 2
    /\ nextSplitIndex > 0

\* C7: every record linked in bucket b hashes to b under the current masks
\* and nextSplitIndex
C7_BucketConsistency ==
    \A x \in Positions(this) : hash(this, pTable[x[1]][x[2]].id) = x[1]

\* a split step has moved a record to a bucket past the first hashIxMask + 1
C7_Witness ==
    /\ nextSplitIndex > 0
    /\ \E i \in DOMAIN pTable : i > hashIxMask /\ pTable[i] # << >>

\* C8 as claimed: the bucket count of a new table is 1 << (minIndexBitWidth + 1)
C8_NewTableSplitSize ==
    op = "new" =>
        /\ nInUse = 0
        /\ \A i \in DOMAIN pTable : pTable[i] = << >>
        /\ nextSplitIndex = 0
        /\ B = Pow2(minIndexBitWidth(ID) + 1)

\* C8 amended: a new table is empty, its bucket count B is
\* 1 << minIndexBitWidth, and 1 << (minIndexBitWidth + 1) chain heads are
\* allocated
C8_NewTable ==
    op = "new" =>
        /\ nInUse = 0
        /\ \A i \in DOMAIN pTable : pTable[i] = << >>
        /\ nextSplitIndex = 0
        /\ B = Pow2(minIndexBitWidth(ID))
        /\ DOMAIN pTable = 0..(Pow2(minIndexBitWidth(ID) + 1) - 1)

\* the table as constructed
C8_Witness == op = "new" /\ nInUse = 0 /\ hashIxSplitMask = 2 * hashIxMask + 1


Max(a, b) == IF a >= b THEN a ELSE b

\* C9 as claimed: in scenario S2 the bucket count starts from 32, grows in
\* steps of one with exactly one split per insertion made while nInUse > B,
\* and is 64 after the last insertion
C9_S2GrowthFrom32 ==
    /\ [](op = "new" => B = 32)
    /\ []((nInUse = S2Last + 1 /\ ~allocFailed) => B = 64)
    /\ [][/\ ret'.splits = (IF nInUse > B THEN 1 ELSE 0)
          /\ ~allocFailed' => tableSize(this') = B + ret'.splits]_vars

\* C9 amended: in scenario S2 the bucket count starts from 16; every insertion
\* made while nInUse > B calls splitBucket exactly once and no other insertion
\* calls it; as long as no doubling allocation fails B grows by one with each
\* such call, so that B = 16 while nInUse <= 17 and B = nInUse - 1 afterwards:
\* B takes the values 16, 17, ..., 63 and is 63 after the last insertion
C9_S2Growth ==
    /\ [](op = "new" => B = 16)
    /\ [](~allocFailed => B = Max(16, nInUse - 1))
    /\ []((nInUse = S2Last + 1 /\ ~allocFailed) => B = S2Last)
    /\ [][/\ ret'.splits = (IF nInUse > B THEN 1 ELSE 0)
          /\ ~allocFailed' => tableSize(this') = B + ret'.splits]_vars

\* the last identifier of S2 was added, the table has doubled on the way
C9_Witness ==
    /\ op = "add" /\ arg.id = S2Last /\ ret.status = 0 /\ ret.splits = 1
    /\ ~allocFailed
    /\ hashIxMask = 31
    /\ B = S2Last

\* C10: the bucket count lies between 1 << minIndexBitWidth and
\* 1 << maxIndexBitWidth of the identifier class
C10_IndexWidthBounds ==
    /\ Pow2(minIndexBitWidth(ID)) <= B
    /\ Log2Ceil(B) <= maxIndexBitWidth(ID)


\* s is a suffix of u
IsSuffix(s, u) == Len(s) <= Len(u) /\ SubSeq(u, Len(u) - Len(s) + 1, Len(u)) = s

\* C11: one call of add makes at most one call of splitBucket, advances
\* nextSplitIndex by at most one split step, grows B by at most one, and the
\* chain of at most one bucket is taken apart (every other chain is kept, with
\* at most new records in front), however far nInUse is above B
C11_GrowthBounded ==
    [][op' = "add" =>
          /\ ret'.splits <= 1
          /\ tableSize(this') \in {B, B + 1}
          /\ \/ UNCHANGED <<nextSplitIndex, hashIxMask>>
             \/ nextSplitIndex' = nextSplitIndex + 1 /\ UNCHANGED hashIxMask
             \/ nextSplitIndex' = 1 /\ hashIxMask' = hashIxSplitMask
          /\ Cardinality({i \in DOMAIN pTable : ~IsSuffix(pTable[i], pTable'[i])}) <= 1]_vars

\* an add made one split step although nInUse was more than one above B
C11_Witness ==
    /\ op = "add" /\ ret.splits = 1 /\ ret.alloc # "null"
    /\ nInUse > B + 2

\* C12: an add whose doubling allocation fails leaves the masks, nextSplitIndex
\* and the chains as they are, except that it links its record at the head of
\* its chain and returns 0 when the identifier is not a duplicate; the buckets
\* stay inside the array and uniqueness, count and bucket consistency keep
\* holding after a failure; and every later
\* add made while nInUse > B and the doubling is outstanding calls operator
\* new again, the table doubling when that call succeeds
C12_AllocFailureSkipsSplit ==
    /\ [][(op' = "add" /\ ret'.alloc = "null") =>
            /\ UNCHANGED <<hashIxMask, hashIxSplitMask, nextSplitIndex>>
            /\ IF lookup(this, arg'.id) = {}
               THEN /\ ret'.status = 0
                    /\ nInUse' = nInUse + 1
                    /\ pTable' = [pTable EXCEPT ![hash(this, arg'.id)] = <<arg'>> \o @]
               ELSE /\ ret'.status = 0 - 1
                    /\ UNCHANGED <<nInUse, pTable>>]_vars
    /\ [](allocFailed => /\ B <= hashIxSplitMask + 1
                         /\ C3_Uniqueness
                         /\ C6_CountConsistency
                         /\ C7_BucketConsistency)
    /\ [][(op' = "add" /\ allocFailed /\ nInUse > B /\ nextSplitIndex > hashIxMask) =>
            /\ ret'.alloc # "none"
            /\ ret'.alloc = "ok" =>
                  /\ hashIxMask' = hashIxSplitMask
                  /\ hashIxSplitMask' = 2 * hashIxSplitMask + 1
                  /\ nextSplitIndex' = 1
            /\ ret'.alloc = "null" => UNCHANGED <<hashIxMask, nextSplitIndex>>]_vars

\* a doubling allocation failed again after earlier failures, and the record
\* was linked all the same
C12_Witness ==
    /\ op = "add" /\ ret.alloc = "null" /\ ret.status = 0
    /\ nInUse > B + 2
    /\ pTable[hash(this, arg.id)][1] = arg

Holding(t, idIn) == {r \in Linked(t) : idEq(r.id, idIn)}

\* C14: remove(id) on a table holding a record r with that identifier returns
\* r, unlinks exactly r, decrements nInUse by 1 and keeps the other records of
\* the bucket in their order; without such a record it returns null and
\* changes nothing; hashIxMask, hashIxSplitMask and nextSplitIndex are unchanged
C14_Remove ==
    [][op' = "remove" =>
          /\ UNCHANGED <<hashIxMask, hashIxSplitMask, nextSplitIndex>>
          /\ IF Holding(this, arg'.id) # {}
             THEN /\ ret'.p = Holding(this, arg'.id)
                  /\ Cardinality(ret'.p) = 1
                  /\ nInUse' = nInUse - 1
                  /\ Linked(this') = Linked(this) \ ret'.p
                  /\ \A i \in DOMAIN pTable :
                         pTable'[i] = SelectSeq(pTable[i], LAMBDA x : x \notin ret'.p)
             ELSE /\ ret'.p = {}
                  /\ UNCHANGED <<pTable, nInUse>>]_vars

\* a remove unlinked a record of a bucket that was created by a split, and
\* other records stay in that bucket
C14_Witness ==
    /\ op = "remove"
    /\ ret.p # {}
    /\ hash(this, arg.id) > hashIxMask
    /\ Len(pTable[hash(this, arg.id)]) >= 1

\* what the pointers to the items of a chain are, in chain order
Pointers(list) == [k \in 1..Len(list) |-> {list[k]}]

\* the chains of the buckets 0 .. n - 1 of t, one after the other
RECURSIVE Chains(_, _)
Chains(t, n) == IF n = 0 THEN << >> ELSE Chains(t, n - 1) \o t.pTable[n - 1]

\* C15: traverse calls the callback exactly once on every record that is
\* linked when the traversal starts, numEntriesInstalled() times in all, also
\* when callbacks remove their own record from the table (and nothing else is
\* inserted or removed); the records whose callback removed them are gone
\* afterwards and the others stay
C15_TraverseOnce ==
    [][op' \in {"traverse", "traverseConst"} =>
          /\ Len(ret'.visited) = nInUse
          /\ UNION {ret'.visited[k] : k \in 1..Len(ret'.visited)} = Linked(this)
          /\ \A j, k \in 1..Len(ret'.visited) :
                 j # k => ret'.visited[j] # ret'.visited[k]
          /\ \A k \in 1..Len(ret'.visited) : Cardinality(ret'.visited[k]) = 1
          /\ Linked(this') \subseteq Linked(this)
          /\ nInUse' = Cardinality(Linked(this'))
          /\ op' = "traverseConst" => Linked(this') = Linked(this)]_vars

\* a traverse over a split table handed out three or more records, and two or
\* more of them, neighbours in one chain, removed themselves
C15_Witness ==
    /\ op = "traverse"
    /\ nextSplitIndex > 0
    /\ Len(ret.visited) >= 3
    /\ nInUse <= Len(ret.visited) - 2
    /\ \E k \in 1..(Len(ret.visited) - 1) :
           /\ ret.visited[k] \cup ret.visited[k + 1] \subseteq
                  {r \in UNION {ret.visited[j] : j \in 1..Len(ret.visited)} :
                       r \notin Linked(this)}
           /\ \A r1 \in ret.visited[k], r2 \in ret.visited[k + 1] :
                  hash(this, r1.id) = hash(this, r2.id)

\* C16: on a table left alone, the successive next() calls of a resTableIter
\* return every linked record exactly once, bucket after bucket in ascending
\* index and in chain order within a bucket, and null ever after
C16_IteratorOrder ==
    op = "iterate" =>
        /\ ret.visited = Pointers(Chains(this, B)) \o << {}, {} >>
        /\ Len(Chains(this, B)) = nInUse
        /\ \A j, k \in 1..nInUse : j # k => ret.visited[j] # ret.visited[k]

\* an iteration over a split table with two records in one bucket and an
\* empty bucket before a filled one
C16_Witness ==
    /\ op = "iterate"
    /\ nextSplitIndex > 0
    /\ \E i \in 0..(B - 1) : Len(pTable[i]) >= 2
    /\ \E i, j \in 1..(B - 1) : i < j /\ pTable[i] = << >> /\ pTable[j] # << >>

\* the identifiers of the records linked into t
LiveIds(t) == {r.id : r \in Linked(t)}

\* the first of id, id + 1, ... (mod 2^ChronW) that is not in live
RECURSIVE FirstFree(_, _)
FirstFree(live, id) ==
    IF id \notin live THEN id ELSE FirstFree(live, (id + 1) % (UINT_MAX + 1))

\* C17 as stated: allocId starts at 1, every identifier assigned by
\* chronIntIdResTable::add lies strictly after the previously assigned one in
\* the cyclic order starting from it (so it differs from it), and no
\* identifier is assigned to two live records
C17_StrictlyIncreasing ==
    /\ [](op = "new" => allocId = 1)
    /\ [](\A r1, r2 \in Linked(this) : r1.id = r2.id => r1 = r2)
    /\ [][(op' = "chronAdd" /\ ~ret'.hang /\ prevId # {}) =>
             \A prev \in prevId :
                 (arg'.id - prev) % (UINT_MAX + 1) \in 1..UINT_MAX]_vars

\* C17, amended: allocId starts at 1; an identifier assigned by a returning
\* chronIntIdResTable::add is not the identifier of a record live at the
\* call, it is the first one after the previously assigned identifier in
\* cyclic order that is free, and it is the previously assigned identifier
\* itself exactly when every other identifier is live at the call
C17_IncreasingUnlessOnlyFree ==
    /\ [](op = "new" => allocId = 1)
    /\ [](\A r1, r2 \in Linked(this) : r1.id = r2.id => r1 = r2)
    /\ [][(op' = "chronAdd" /\ ~ret'.hang) =>
             /\ arg'.id \notin LiveIds(this)
             /\ LiveIds(this') = LiveIds(this) \cup {arg'.id}
             /\ \A prev \in prevId :
                    /\ \A k \in 1..UINT_MAX :
                           k < (arg'.id - prev) % (UINT_MAX + 1) =>
                               (prev + k) % (UINT_MAX + 1) \in LiveIds(this)
                    /\ arg'.id = prev <=> LiveIds(this) = (0..UINT_MAX) \ {prev}]_vars

\* an add whose allocId wrapped from UINT_MAX to 0: it went past a live
\* record and assigned 0, with other identifiers still free
C17_Witness ==
    /\ op = "chronAdd"
    /\ ~ret.hang
    /\ ret.attempts >= 2
    /\ arg.id = 0
    /\ allocId = 1
    /\ nInUse <= UINT_MAX

\* C18: when some identifier is free, chronIntIdResTable::add returns, the
\* item has received the first of allocId, allocId + 1, ... (mod 2^ChronW) that
\* is not the identifier of a live record, one attempt was made per value
\* tried, the item is linked under that identifier, and allocId is left at the
\* assigned identifier + 1 (mod 2^ChronW)
C18_WrapAroundSkip ==
    [][(op' = "chronAdd" /\ LiveIds(this) # 0..UINT_MAX) =>
          /\ ~ret'.hang
          /\ arg'.id = FirstFree(LiveIds(this), allocId)
          /\ ret'.attempts = ((arg'.id - allocId) % (UINT_MAX + 1)) + 1
          /\ ret'.attempts <= nInUse + 1
          /\ allocId' = (arg'.id + 1) % (UINT_MAX + 1)
          /\ lookup(this', arg'.id) = {arg'}
          /\ Linked(this') = Linked(this) \cup {arg'}
          /\ nInUse' = nInUse + 1]_vars

\* allocId had wrapped around to 1 while 1 was live: the item received 2
C18_Witness ==
    /\ op = "chronAdd"
    /\ ret.attempts = 2
    /\ arg.id = 2
    /\ allocId = 3
    /\ 0 \in LiveIds(this)
    /\ 1 \in LiveIds(this)

\* C19 as stated: every call of chronIntIdResTable::add returns, after at most
\* (number of records live at the call + 1) attempts
C19_AddTerminates ==
    op = "chronAdd" => (~ret.hang /\ ret.attempts <= nInUse)

\* C20: for the mixer of intId <unsigned, 4, 32>, two 32 bit inputs that
\* differ in exactly one bit give outputs that differ in at least one of
\* their low w bits, for every w in 4..32 (and the mixer computed on numbers
\* gives the same output wherever the input is below 2^30)
C20_MixerCoverage ==
    op = "integerHash" =>
        /\ probe.h # probe.hFlipped
        /\ \E k \in 0..(probe.w - 1) : k \in XorBits(probe.h, probe.hFlipped)
        /\ (\A k \in probe.x : k < 30) =>
               MaskBits(BitsOf(integerHash(ID.MIN, ID.MAX, ValueOf(probe.x))), probe.w) = probe.h

\* bit 31 of an input with several 1 bits was flipped and the outputs were
\* masked to 4 bits
C20_Witness ==
    /\ op = "integerHash"
    /\ ID.MIN = 4
    /\ ID.MAX = 32
    /\ probe.i = 31
    /\ probe.w = 4
    /\ Cardinality(probe.x) >= 2
    /\ probe.h # probe.hFlipped

\* strlen: the number of bytes before the first 0 of the memory s
RECURSIVE strlen(_)
strlen(s) == IF Head(s) = 0 THEN 0 ELSE 1 + strlen(Tail(s))

\* accumulator h<l> (l in 0..3) of the string hash after the first n bytes of
\* s: byte j (from 0) goes to accumulator j mod 4 as h = P[h XOR byte]
RECURSIVE Lane(_, _, _)
Lane(s, l, n) ==
    IF n = 0 THEN 0
    ELSE IF (n - 1) % 4 = l
         THEN fastHashPermutedIndexSpace[BitXor(Lane(s, l, n - 1), s[n]) + 1]
         ELSE Lane(s, l, n - 1)

\* the 32 bit composite (h3<<24)|(h2<<16)|(h1<<8)|h0 of the string s
Composite(s) ==
    ShlBits(BitsOf(Lane(s, 3, strlen(s))), 24) \cup ShlBits(BitsOf(Lane(s, 2, strlen(s))), 16)
        \cup ShlBits(BitsOf(Lane(s, 1, strlen(s))), 8) \cup BitsOf(Lane(s, 0, strlen(s)))

\* C21 as stated: stringId::hash of a non-null string is the integer mixer
\* with MIN_INDEX_WIDTH = 8 and MAX_ID_WIDTH = 32 applied to the composite
\* (h3<<24)|(h2<<16)|(h1<<8)|h0: the composite folded by >>16 and then by >>8
C21_StringHashMixer ==
    (op = "stringIdHash" /\ probe.a # << >>) =>
        /\ probe.ha = {integerHashBits(8, 32, Composite(probe.a))}
        /\ probe.ha = {XorBits(XorBits(Composite(probe.a), ShrBits(Composite(probe.a), 16)),
                               ShrBits(XorBits(Composite(probe.a),
                                               ShrBits(Composite(probe.a), 16)), 8))}

\* the string the memory s holds: its bytes before the first 0
CStr(s) == SubSeq(s, 1, strlen(s))

\* C22: stringId equality is byte-wise equality of the two strings when both
\* backing pointers are non-null and false when either is null (a null-backed
\* id equals no id, itself included); ids that compare equal have equal hashes
C22_StringEquality ==
    op = "stringIdEq" =>
        /\ probe.eq = {probe.a # << >> /\ probe.b # << >> /\ CStr(probe.a) = CStr(probe.b)}
        /\ (probe.a = << >> \/ probe.b = << >>) => probe.eq = {FALSE}
        /\ (probe.eq = {TRUE} /\ probe.ha # {}) => probe.ha = probe.hb

\* two ids compared equal and hashed equal although the memory behind them
\* differs after the terminating 0
C22_Witness ==
    /\ op = "stringIdEq"
    /\ probe.eq = {TRUE}
    /\ probe.ha # {}
    /\ probe.ha = probe.hb
    /\ probe.a # probe.b
    /\ strlen(probe.a) = 2

\* C28: byte j (from 0) of the string updates accumulator h(j mod 4) as
\* h = P[h XOR byte], the four accumulators start at 0, the bytes after the
\* first 0 are not consumed, and a null backing pointer and the empty string
\* hash to 0 (the hash computed on numbers is the same wherever the composite
\* is below 2^30)
C28_StringHashLanes ==
    op = "stringIdHash" =>
        /\ probe.a = << >> => probe.ha = {{}}
        /\ probe.a # << >> =>
               /\ probe.ha = {integerHashBits(stringIdMinIndexWidth, stringIdMaxIndexWidth,
                                              Composite(probe.a))}
               /\ probe.ha = {stringIdHashBits(CStr(probe.a) \o <<0>>)}
               /\ strlen(probe.a) = 0 => probe.ha = {{}}
               /\ Lane(probe.a, 3, strlen(probe.a)) < 64 =>
                      probe.ha = {BitsOf(stringIdHash(probe.a))}

\* a string of five bytes or more was hashed: accumulator h0 took two bytes
C28_Witness ==
    /\ op = "stringIdHash"
    /\ probe.a # << >>
    /\ strlen(probe.a) >= 5
    /\ probe.a[1] # probe.a[5]
    /\ probe.ha # {{}}

\* C23 as stated: the identifier classes report their index widths in bits:
\* intId <T, MIN, MAX> (chronIntId included) reports minIndexBitWidth() = MIN
\* and maxIndexBitWidth() = MAX, stringId reports 8 and 32, and for every
\* class minIndexBitWidth() <= maxIndexBitWidth()
C23_WidthsReported ==
    /\ ID.kind = "intId" =>
           (minIndexBitWidth(ID) = ID.MIN /\ maxIndexBitWidth(ID) = ID.MAX)
    /\ ID.kind = "stringId" =>
           (minIndexBitWidth(ID) = 8 /\ maxIndexBitWidth(ID) = 32)
    /\ minIndexBitWidth(ID) <= maxIndexBitWidth(ID)

\* C24: in every reachable state B = (hashIxMask + 1) + nextSplitIndex and
\* the chains hash () can return are exactly 0 .. B - 1,
\* hashIxSplitMask = 2 * (hashIxMask + 1) - 1, hashIxMask + 1 is a power of
\* two, and 0 <= nextSplitIndex <= hashIxMask + 1
C24_MaskInvariants ==
    /\ B = (hashIxMask + 1) + nextSplitIndex
    /\ ID.kind = "intId" => {hash(this, i) : i \in 0..(Pow2(ID.MAX) - 1)} = 0..(B - 1)
    /\ hashIxSplitMask = 2 * (hashIxMask + 1) - 1
    /\ \E k \in 0..30 : hashIxMask + 1 = Pow2(k)
    /\ 0 <= nextSplitIndex
    /\ nextSplitIndex <= hashIxMask + 1

\* an add has just doubled the chain-head array and split bucket 0
C24_Witness ==
    /\ op = "add"
    /\ ret.alloc = "ok"
    /\ hashIxMask = Pow2(minIndexBitWidth(ID) + 1) - 1
    /\ nextSplitIndex = 1

\* C25: an add that returns success has called splitBucket exactly once when
\* nInUse > B held at the call and not at all otherwise (not at nInUse = B);
\* the record is linked at the head of the chain hash () gives after that
\* split step, the other chains being as the split step left them
C25_SplitTrigger ==
    [][(op' = "add" /\ ret'.status = 0) =>
          LET t1 == IF nInUse > B THEN splitBucket(this, ret'.alloc # "null") ELSE this
          IN  /\ ret'.splits = (IF nInUse > B THEN 1 ELSE 0)
              /\ nInUse <= B => tableSize(this') = B
              /\ (nInUse > B /\ ret'.alloc # "null") => tableSize(this') = B + 1
              /\ hash(this', arg'.id) = hash(t1, arg'.id)
              /\ pTable' = [t1.pTable EXCEPT ![hash(t1, arg'.id)] = <<arg'>> \o @]]_vars

\* an add split a bucket and linked its record into the chain the split
\* step had just created
C25_Witness ==
    /\ op = "add"
    /\ ret.status = 0
    /\ ret.splits = 1
    /\ hash(this, arg.id) = B - 1
    /\ hash(this, arg.id) > hashIxMask
    /\ Len(pTable[B - 1]) >= 2

\* the reference fold: width is halved and v folded by it, n times
RECURSIVE Fold(_, _, _)
Fold(v, width, n) ==
    IF n = 0 THEN v
    ELSE Fold(BitXor(v, Shr(v, width \div 2)), width \div 2, n - 1)

\* the number of times the rule "width >>= 1; fold; until width <= MIN" folds
RECURSIVE FoldCount(_, _)
FoldCount(MIN, width) ==
    IF width \div 2 <= MIN THEN 1 ELSE 1 + FoldCount(MIN, width \div 2)

PowersOfTwo == {Pow2(k) : k \in 0..30}

\* C26: for MIN_INDEX_WIDTH < MAX_ID_WIDTH, both powers of two, integerHash
\* returns (unmasked) the value folded ceil(log2(MAX/MIN)) times, each time by
\* the halved width, starting with width = MAX_ID_WIDTH; this is the number
\* of folds the repeat-until rule makes
C26_MixerFold ==
    (op = "integerHash" /\ probe.MIN < probe.MAX
        /\ probe.MIN \in PowersOfTwo /\ probe.MAX \in PowersOfTwo) =>
        /\ probe.h = {Fold(probe.v, probe.MAX, Log2Ceil(probe.MAX \div probe.MIN))}
        /\ FoldCount(probe.MIN, probe.MAX) = Log2Ceil(probe.MAX \div probe.MIN)

\* the mixer was called with (4, 16) on a value with bits above bit 8: two
\* folds, and the value returned keeps its high bits (it is not masked)
C26_Witness ==
    /\ op = "integerHash"
    /\ probe.MIN = 4
    /\ probe.MAX = 16
    /\ probe.v >= Pow2(11)
    /\ probe.h # {probe.v}
    /\ \A x \in probe.h : x >= Pow2(11)

\* C27 as stated: when MIN_INDEX_WIDTH >= MAX_ID_WIDTH the fold runs zero
\* times and integerHash returns its input unchanged
C27_MixerIdentity ==
    (op = "integerHash" /\ probe.MIN >= probe.MAX) => probe.h = {probe.v}

\* C27, amended: when MIN_INDEX_WIDTH >= MAX_ID_WIDTH the fold runs exactly
\* once, with width = MAX_ID_WIDTH >> 1: integerHash returns
\* v ^ (v >> (MAX_ID_WIDTH >> 1)), which is the input itself only when the
\* input is below 2^(MAX_ID_WIDTH >> 1), and is 0 when MAX_ID_WIDTH <= 1
C27_MixerFoldsOnce ==
    (op = "integerHash" /\ probe.MIN >= probe.MAX) =>
        /\ probe.h = {BitXor(probe.v, Shr(probe.v, probe.MAX \div 2))}
        /\ FoldCount(probe.MIN, probe.MAX) = 1
        /\ probe.h = {probe.v} <=> probe.v < Pow2(probe.MAX \div 2)
        /\ probe.MAX <= 1 => probe.h = {0}

\* the mixer was called with MIN_INDEX_WIDTH = 8 and MAX_ID_WIDTH = 4 (the
\* widths stringId hands it) and returned a value other than its input
C27_Witness ==
    /\ op = "integerHash"
    /\ probe.MIN = 8
    /\ probe.MAX = 4
    /\ probe.v > 0
    /\ probe.h # {probe.v}

\* the number of chain heads allocated for t
Allocated(t) == Cardinality(DOMAIN t.pTable)

\* C29 as stated: the chain-head array is replaced only by a split step that
\* finds nextSplitIndex > hashIxMask and whose allocation succeeds; the new
\* array has 2 * (hashIxMask + 1) entries (hashIxMask as it was), hashIxMask
\* becomes the old hashIxSplitMask, hashIxSplitMask the new size - 1, and
\* nextSplitIndex 0 before the one-bucket rehash (1 after it)
C29_DoublingSize ==
    /\ [][Allocated(this') # Allocated(this) =>
             (op' = "add" /\ nInUse > B /\ nextSplitIndex > hashIxMask /\ ret'.alloc = "ok")]_vars
    /\ [][(op' = "add" /\ ret'.alloc = "ok") =>
             /\ Allocated(this') = 2 * (hashIxMask + 1)
             /\ hashIxMask' = hashIxSplitMask
             /\ hashIxSplitMask' = Allocated(this') - 1
             /\ splitBucketDouble(this).nextSplitIndex = 0
             /\ nextSplitIndex' = 1]_vars

\* C29, amended: as stated, except that the new array has
\* 2 * (hashIxSplitMask + 1) = 4 * (hashIxMask + 1) entries (masks as they
\* were): twice the entries allocated before, all chains kept in place
C29_DoublingFromSplitMask ==
    /\ [][Allocated(this') # Allocated(this) =>
             (op' = "add" /\ nInUse > B /\ nextSplitIndex > hashIxMask /\ ret'.alloc = "ok")]_vars
    /\ [][(op' = "add" /\ ret'.alloc = "ok") =>
             /\ nInUse > B /\ nextSplitIndex > hashIxMask
             /\ Allocated(this') = 2 * (hashIxSplitMask + 1)
             /\ Allocated(this') = 4 * (hashIxMask + 1)
             /\ Allocated(this') = 2 * Allocated(this)
             /\ hashIxMask' = hashIxSplitMask
             /\ hashIxSplitMask' = Allocated(this') - 1
             /\ splitBucketDouble(this).nextSplitIndex = 0
             /\ \A i \in 0..(B - 1) : splitBucketDouble(this).pTable[i] = pTable[i]
             /\ nextSplitIndex' = 1]_vars

\* an add has replaced the first array by one of twice its entries, where
\* all four first chains hold records
C29_Witness ==
    /\ op = "add"
    /\ ret.alloc = "ok"
    /\ Allocated(this) = Pow2(minIndexBitWidth(ID) + 2)
    /\ \A i \in 0..hashIxMask : pTable[i] # << >>

\* the records linked into a chain
Items(list) == {list[i] : i \in DOMAIN list}

\* C30: a split step (of an add, after the doubling if there is one) detaches
\* the chain of bucket s = nextSplitIndex, increments nextSplitIndex, and
\* links every detached record into bucket s or into its shadow bucket
\* s + (hashIxMask + 1), as the hash of the new state says; every other chain
\* is as it was (but for the record the add links in front of its chain)
C30_OneBucketRehash ==
    [][(op' = "add" /\ nInUse > B /\ ret'.alloc # "null") =>
          LET doubled == nextSplitIndex > hashIxMask
              s == IF doubled THEN 0 ELSE nextSplitIndex
              mask == IF doubled THEN hashIxSplitMask ELSE hashIxMask
              shadow == s + (mask + 1)
              Old(i) == IF i < B THEN pTable[i] ELSE << >>
              New(i) == IF ret'.status = 0 /\ i = hash(this', arg'.id)
                        THEN Tail(pTable'[i]) ELSE pTable'[i]
          IN  /\ nextSplitIndex' = s + 1
              /\ hashIxMask' = mask
              /\ shadow = nextSplitIndex' - 1 + hashIxMask' + 1
              /\ shadow \in DOMAIN pTable'
              /\ Old(shadow) = << >>
              /\ Items(New(s)) \cup Items(New(shadow)) = Items(Old(s))
              /\ Len(New(s)) + Len(New(shadow)) = Len(Old(s))
              /\ \A r \in Items(New(s)) : hash(this', r.id) = s
              /\ \A r \in Items(New(shadow)) : hash(this', r.id) = shadow
              /\ \A i \in DOMAIN pTable' \ {s, shadow} : New(i) = Old(i)]_vars

\* an add has split a bucket of two or more records: some went back into
\* the bucket and some into its shadow bucket, and the add linked nothing
\* into either of them
C30_Witness ==
    /\ op = "add"
    /\ ret.splits = 1
    /\ ret.alloc # "null"
    /\ pTable[nextSplitIndex - 1] # << >>
    /\ pTable[nextSplitIndex - 1 + hashIxMask + 1] # << >>
    /\ \/ ret.status # 0
       \/ hash(this, arg.id) \notin {nextSplitIndex - 1, nextSplitIndex - 1 + hashIxMask + 1}

\* C31: the split step an add is about to make (nInUse > B), with or without
\* capacity doubling and whether or not the allocation succeeds, keeps the
\* set of linked records and nInUse, links no record twice, and leaves the
\* result of lookup(id) as it was for every identifier; the doubling keeps
\* the chains of the old heads at their index and makes every new head
\* empty; an add that is rejected as a duplicate after its split step leaves
\* exactly this in the table
C31_SplitPreservesRecords ==
    /\ [](nInUse > B =>
            \A allocOk \in allocOutcomes(this) :
                LET t1 == splitBucket(this, allocOk)
                    d == splitBucketDouble(this)
                IN  /\ Linked(t1) = Linked(this)
                    /\ t1.nInUse = nInUse
                    /\ Cardinality(Positions(t1)) = Cardinality(Linked(this))
                    /\ SumLen(t1, tableSize(t1)) = nInUse
                    /\ \A r \in Linked(this) : lookup(t1, r.id) = lookup(this, r.id)
                    /\ \A idIn \in Ids : ID.kind = "intId" => lookup(t1, idIn) = lookup(this, idIn)
                    /\ (nextSplitIndex > hashIxMask /\ allocOk) =>
                           /\ \A i \in 0..(B - 1) : d.pTable[i] = pTable[i]
                           /\ \A i \in DOMAIN d.pTable : i >= B => d.pTable[i] = << >>)
    /\ [][(op' = "add" /\ ret'.status # 0 /\ ret'.splits = 1) =>
             /\ Linked(this') = Linked(this)
             /\ nInUse' = nInUse
             /\ Cardinality(Positions(this')) = Cardinality(Linked(this))
             /\ \A r \in Linked(this) : lookup(this', r.id) = lookup(this, r.id)]_vars

\* an add of a duplicate has doubled the array and split bucket 0, whose
\* records are now in two chains, with five records linked
C31_Witness ==
    /\ op = "add"
    /\ ret.status # 0
    /\ ret.splits = 1
    /\ ret.alloc = "ok"
    /\ nInUse >= 5
    /\ pTable[0] # << >>

\* a chain whose objects are in the reverse of the order of their tags
Descending(list) == \A j \in 1..Len(list) : \A k \in 1..Len(list) :
                        j < k => list[j].tag > list[k].tag

RECURSIVE Reverse(_)
Reverse(list) == IF list = << >> THEN << >> ELSE Reverse(Tail(list)) \o <<Head(list)>>

\* the items of a chain that hash to bucket b in t, in chain order
Bound(t, list, b) == SelectSeq(list, LAMBDA r : hash(t, r.id) = b)

\* C32 as stated: immediately after a successful add(r), r is the head of
\* the chain of bucket hash(r.id), and in every reachable state the records
\* of any one chain are in reverse order of their insertion
C32_ChainLIFO ==
    /\ [][(op' = "add" /\ ret'.status = 0) =>
             Head(pTable'[hash(this', arg'.id)]) = arg']_vars
    /\ [](\A i \in DOMAIN pTable : Descending(pTable[i]))

\* C32, amended: immediately after a successful add(r), r is the head of
\* the chain of bucket hash(r.id); the chains are in reverse order of
\* insertion until a split step has run; a split step links the records of
\* the split bucket into each of their two chains in the reverse of the
\* order they had, and remove keeps the order of the records that stay
C32_ChainOrder ==
    /\ [][(op' = "add" /\ ret'.status = 0) =>
             Head(pTable'[hash(this', arg'.id)]) = arg']_vars
    /\ []((nextSplitIndex = 0 /\ hashIxMask = Pow2(minIndexBitWidth(ID)) - 1) =>
             \A i \in DOMAIN pTable : Descending(pTable[i]))
    /\ [][(op' = "add" /\ nInUse > B /\ ret'.alloc # "null") =>
             LET s == nextSplitIndex' - 1
                 shadow == s + hashIxMask' + 1
                 New(i) == IF ret'.status = 0 /\ i = hash(this', arg'.id)
                           THEN Tail(pTable'[i]) ELSE pTable'[i]
             IN  /\ New(s) = Reverse(Bound(this', pTable[s], s))
                 /\ New(shadow) = Reverse(Bound(this', pTable[s], shadow))]_vars
    /\ [][op' = "remove" =>
             \A i \in DOMAIN pTable :
                 pTable'[i] = SelectSeq(pTable[i], LAMBDA r : r \notin ret'.p)]_vars

\* a split step has linked two records into the same chain, and the one
\* added first is now in front of the one added later
C32_Witness ==
    /\ op = "add"
    /\ ret.splits = 1
    /\ nextSplitIndex > 0
    /\ \E i \in DOMAIN pTable : Len(pTable[i]) >= 2 /\ ~Descending(pTable[i])

\* the finite map a table stands for: the records linked, by identifier
AbsMap(t) == Linked(t)

\* what the finite map m holds for an identifier: a record or nothing
AbsGet(m, idIn) == {r \in m : idEq(r.id, idIn)}

\* C33: the table refines a finite map from identifier to record.  The map
\* holds at most one record per identifier and numEntriesInstalled() is its
\* size; add returns 0 and maps the identifier of its record when the
\* identifier is free, and returns -1 and changes nothing when it is not;
\* remove returns what the map holds for the identifier and unmaps it;
\* lookup returns what the map holds and changes nothing: whatever split
\* steps, doublings or failed allocations the calls make
C33_RefinesFiniteMap ==
    /\ [](/\ nInUse = Cardinality(AbsMap(this))
          /\ \A idIn \in Ids : Cardinality(AbsGet(AbsMap(this), idIn)) <= 1)
    /\ [][op' = "add" =>
             LET m == AbsMap(this)
             IN  IF AbsGet(m, arg'.id) = {}
                 THEN ret'.status = 0 /\ AbsMap(this') = m \cup {arg'}
                 ELSE ret'.status = 0 - 1 /\ AbsMap(this') = m]_vars
    /\ [][op' = "remove" =>
             LET m == AbsMap(this)
             IN  ret'.p = AbsGet(m, arg'.id) /\ AbsMap(this') = m \ AbsGet(m, arg'.id)]_vars
    /\ [][op' = "lookup" =>
             LET m == AbsMap(this)
             IN  ret'.p = AbsGet(m, arg'.id) /\ AbsMap(this') = m]_vars

\* after a failed doubling allocation and split steps, lookup has returned a
\* record that a split step moved to a shadow bucket
C33_Witness ==
    /\ op = "lookup"
    /\ ret.p # {}
    /\ allocFailed
    /\ nInUse >= 3
    /\ hash(this, arg.id) >= Pow2(minIndexBitWidth(ID))

\* C34: as long as no doubling allocation has failed, nInUse <= B + 1 in
\* every reachable state, so no add is called with nInUse > B + 1; and a
\* chronological add, however many times it retries after collisions, makes
\* at most one split step in all: only its first call of add can find
\* nInUse > B
C34_LoadBound ==
    /\ [](~allocFailed => nInUse <= B + 1)
    /\ [][(op' = "chronAdd" /\ ~allocFailed') =>
             /\ nInUse <= B + 1
             /\ ret'.splits <= 1
             /\ ret'.splits = (IF nInUse > B THEN 1 ELSE 0)
             /\ tableSize(this') = B + ret'.splits]_vars

\* a chronological add has found nInUse = B + 1, split a bucket in its first
\* attempt, collided, and linked its item in a later attempt without
\* another split step
C34_Witness ==
    /\ op = "chronAdd"
    /\ ret.attempts >= 2
    /\ ~ret.hang
    /\ ret.splits = 1
    /\ ~allocFailed
    /\ nInUse = B + 1

\* C35: the bucket count B never decreases.  remove (like lookup) leaves
\* hashIxMask, hashIxSplitMask and nextSplitIndex as they are; add leaves B
\* as it is or makes it larger, and never lowers a mask or the number of
\* chain heads allocated
C35_BucketCountMonotone ==
    /\ [][tableSize(this') >= B]_vars
    /\ [][op' \in {"remove", "lookup"} =>
             UNCHANGED <<hashIxMask, hashIxSplitMask, nextSplitIndex>>]_vars
    /\ [][op' = "add" =>
             /\ tableSize(this') \in {B, B + 1}
             /\ hashIxMask' >= hashIxMask
             /\ hashIxSplitMask' >= hashIxSplitMask
             /\ Allocated(this') >= Allocated(this)]_vars

\* removes have emptied a table that had doubled its array: it keeps its
\* bucket count and its masks
C35_Witness ==
    /\ op = "remove"
    /\ ret.p # {}
    /\ nInUse = 0
    /\ hashIxMask > Pow2(minIndexBitWidth(ID)) - 1
    /\ B > Pow2(minIndexBitWidth(ID) + 1)

\* identifiers whose hash values have every pattern of low bits
HashedIds == IF ID.kind = "stringId" THEN StrIds ELSE 0..(Pow2(MaxWidth + 1) - 1)

\* C36: in every reachable state the index resTable::hash computes is below
\* B = (hashIxMask + 1) + nextSplitIndex for every identifier, B is at most
\* hashIxSplitMask + 1, which is the number of chain heads allocated, the
\* bucket a split step would detach is allocated, and every record is linked
\* in one of the buckets 0 .. B - 1 that traverse, verify and the iterator
\* walk
C36_IndexSafety ==
    /\ DOMAIN pTable = 0..hashIxSplitMask
    /\ Allocated(this) = hashIxSplitMask + 1
    /\ B <= hashIxSplitMask + 1
    /\ \A idIn \in HashedIds : hash(this, idIn) \in 0..(B - 1)
    /\ nextSplitIndex <= hashIxMask => nextSplitIndex \in DOMAIN pTable
    /\ \A i \in DOMAIN pTable : i >= B => pTable[i] = << >>
    /\ \A x \in Positions(this) : x[1] < B

\* after a failed doubling allocation every allocated chain head is a
\* bucket, the last of them holds a record, and the table is overloaded
C36_Witness ==
    /\ allocFailed
    /\ B = hashIxSplitMask + 1
    /\ pTable[B - 1] # << >>
    /\ nInUse > B

====
